---- MODULE Spec2Model ----
(***************************************************************************)
(* Model of etl_connector.py: a three-step ETL run (extract, transform,    *)
(* load_to_mongo) and the recursive key sanitizer it uses.                 *)
(*                                                                         *)
(* Python values are tagged records:                                       *)
(*   dict    [tag |-> "dict", items |-> <<[k |-> key, v |-> value], ...>>] *)
(*           entries in insertion order, keys pairwise distinct            *)
(*   list    [tag |-> "list", elems |-> <<value, ...>>]                    *)
(*   scalar  [tag |-> "scalar", type |-> "str" | "int" | "NoneType",       *)
(*            val |-> the literal's text]                                  *)
(* A string (a key, or the text of a scalar) is the sequence of its        *)
(* characters, each a one-character TLA+ string.                           *)
(***************************************************************************)
EXTENDS Integers, Sequences, FiniteSets, TLC

VARIABLES
    pc,           \* position of run(): FETCH, TRANSFORM, LOAD, DONE, FAILED
    url,          \* CISA_KEV_URL, read from the environment at import
    mongoUri,     \* MONGO_URI, read from the environment at import
    response,     \* what requests.get met: the server's answer or a transport error
    raw,          \* run()'s local `raw`
    docs,         \* run()'s local `docs` (insert_many changes the list's dicts in place)
    transformed,  \* the list transform returned to run(), as it was returned
    nowCalls,     \* the values datetime.now() returned, in call order
    fetchCalls,   \* number of requests.get calls issued
    transformCalls, \* number of transform() calls
    clientOpened, \* number of pymongo.MongoClient objects constructed
    insertCalls,  \* the arguments of the insert_many calls issued, in order
    store,        \* the documents in MONGO_DB.MONGO_COLLECTION
    loadResult,   \* the value load_to_mongo returned (Unbound until it returns)
    log,          \* the records written through `logger`
    escaped,      \* whether an exception left run()
    loadCalls,    \* number of load_to_mongo() calls
    fnArg,        \* direct calls: the argument of the latest call
    fnOut,        \* direct calls: what the latest call returned (Unbound if it raised)
    fnOps,        \* direct calls: the functions called so far, in order
    fnNows        \* direct calls: the values datetime.now() returned, in call order

runVars == <<pc, url, mongoUri, response, raw, docs, transformed, nowCalls, fetchCalls,
             transformCalls, clientOpened, insertCalls, store, loadResult,
             log, escaped, loadCalls>>
fnVars == <<fnArg, fnOut, fnOps, fnNows>>
vars == <<pc, url, mongoUri, response, raw, docs, transformed, nowCalls, fetchCalls,
          transformCalls, clientOpened, insertCalls, store, loadResult,
          log, escaped, loadCalls, fnArg, fnOut, fnOps, fnNows>>

\* ------------------------------------------------------------ bounds
MaxEntries == 2
MaxItems == 2
MaxTime == 2
MaxCalls == 2

\* ------------------------------------------------------------ Python values
PyDict(items) == [tag |-> "dict", items |-> items]
PyList(elems) == [tag |-> "list", elems |-> elems]
PyStr(chars) == [tag |-> "scalar", type |-> "str", val |-> chars]
PyInt(digits) == [tag |-> "scalar", type |-> "int", val |-> digits]
PyNone == [tag |-> "scalar", type |-> "NoneType", val |-> <<"N", "o", "n", "e">>]
Unbound == [tag |-> "unbound"]

\* bool(obj) for the values the program tests (MONGO_URI: None or a str; docs:
\* a list): None, "", [] and {} are falsy.
Truthy(obj) ==
    IF obj.tag = "dict" THEN obj.items # <<>>
    ELSE IF obj.tag = "list" THEN obj.elems # <<>>
    ELSE IF obj.type = "NoneType" THEN FALSE
    ELSE obj.val # <<>>

\* d.setdefault(key, value): an existing key keeps its value.
SetItemKeepFirst(items, key, value) ==
    IF \E i \in 1..Len(items) : items[i].k = key
    THEN items
    ELSE Append(items, [k |-> key, v |-> value])

\* d[key] = value on the entry sequence of a dict: an existing key keeps its
\* position and takes the new value, a new key is appended.
SetItem(items, key, value) ==
    IF \E i \in 1..Len(items) : items[i].k = key
    THEN [i \in 1..Len(items) |->
            IF items[i].k = key THEN [k |-> key, v |-> value] ELSE items[i]]
    ELSE Append(items, [k |-> key, v |-> value])

\* d.get(key, default)
DictGet(items, key, default) ==
    IF \E i \in 1..Len(items) : items[i].k = key
    THEN items[CHOOSE i \in 1..Len(items) : items[i].k = key].v
    ELSE default

\* str.replace(old, new) for a one-character `old`: every occurrence.
StrReplace(s, old, new) ==
    [i \in 1..Len(s) |-> IF s[i] = old THEN new ELSE s[i]]

\* A replace that stops after the first occurrence.
StrReplaceFirst(s, old, new) ==
    [i \in 1..Len(s) |->
        IF s[i] = old /\ \A j \in 1..(i - 1) : s[j] # old THEN new ELSE s[i]]

\* new_key = k.replace(".", "_"): the '$' rewrite is missing.
NewKeyDotOnly(k) == StrReplace(k, ".", "_")

\* new_key = k.replace(".", "_").replace("$", "_"), but only the first
\* offending character of the key is rewritten.
NewKeyFirstOnly(k) ==
    LET a == StrReplaceFirst(k, ".", "_")
    IN  IF a # k THEN a ELSE StrReplaceFirst(k, "$", "_")

\* new_key = k.replace(".", "_").replace("$", "_")
NewKey(k) == StrReplace(StrReplace(k, ".", "_"), "$", "_")

RECURSIVE sanitize_for_mongo(_)
RECURSIVE SanitizeItems(_, _)

\* The for loop of sanitize_for_mongo over obj.items(), `new` the dict built so far.
SanitizeItems(items, new) ==
    IF items = <<>> THEN new
    ELSE SanitizeItems(Tail(items),
                       SetItem(new, NewKey(Head(items).k),
                               sanitize_for_mongo(Head(items).v)))

sanitize_for_mongo(obj) ==
    IF obj.tag = "dict" THEN PyDict(SanitizeItems(obj.items, <<>>))
    ELSE IF obj.tag = "list"
         THEN PyList([i \in 1..Len(obj.elems) |-> sanitize_for_mongo(obj.elems[i])])
    ELSE obj

\* ------------------------------------------------------------ strings
Digits == <<"0", "1", "2", "3", "4", "5", "6", "7", "8", "9">>
\* str(n) for a one-digit n
Decimal(n) == <<Digits[n + 1]>>

VULNERABILITIES == <<"v","u","l","n","e","r","a","b","i","l","i","t","i","e","s">>
INGESTED_AT == <<"i","n","g","e","s","t","e","d","_","a","t">>

\* datetime(...).isoformat() of the instant t seconds after the model's epoch,
\* 1970-01-01T00:00:00+00:00 (t a single digit).
isoformat(t) ==
    PyStr(<<"1","9","7","0","-","0","1","-","0","1","T","0","0",":","0","0",":","0">>
          \o Decimal(t) \o <<"+","0","0",":","0","0">>)

\* ------------------------------------------------------------ results
Return(v) == [ok |-> TRUE, val |-> v, exc |-> "None"]
Raise(e) == [ok |-> FALSE, val |-> Unbound, exc |-> e]

\* ------------------------------------------------------------ extract
\* requests.get(url, timeout=30) raised (resp.kind names the exception), or it
\* returned a response; raise_for_status() raises for a status in 400..599
\* and for no other (a 1xx, 3xx or 6xx answer passes); json() raises for a
\* body that is not JSON.
extract(resp) ==
    IF resp.kind # "http" THEN Raise(resp.kind)
    ELSE IF resp.status >= 400 /\ resp.status < 600 THEN Raise("HTTPError")
    ELSE IF ~resp.is_json THEN Raise("JSONDecodeError")
    ELSE Return(resp.body)

\* ------------------------------------------------------------ transform
\* What `for item in obj` visits: the elements of a list, the keys of a dict,
\* the characters of a str; any other value is not iterable.
Iterable(obj) == obj.tag \in {"dict", "list"} \/ obj.type = "str"
Iterate(obj) ==
    IF obj.tag = "list" THEN obj.elems
    ELSE IF obj.tag = "dict" THEN [i \in 1..Len(obj.items) |-> PyStr(obj.items[i].k)]
    ELSE [i \in 1..Len(obj.val) |-> PyStr(<<obj.val[i]>>)]

\* doc["ingested_at"] = stamp, written into a nested mapping of the record too.
StampEverywhere(doc, stamp) ==
    PyDict(SetItem([i \in 1..Len(doc.items) |->
                      IF doc.items[i].v.tag = "dict"
                      THEN [k |-> doc.items[i].k,
                            v |-> PyDict(SetItem(doc.items[i].v.items, INGESTED_AT, stamp))]
                      ELSE doc.items[i]],
                   INGESTED_AT, stamp))

\* doc["ingested_at"] = stamp on a dict
Stamp(doc, stamp) == PyDict(SetItem(doc.items, INGESTED_AT, stamp))

\* The for loop of transform, but an element that is no dict is skipped
\* instead of raising.
RECURSIVE TransformLoopSkipsBad(_, _, _)
TransformLoopSkipsBad(items, ts, out) ==
    IF items = <<>>
    THEN [ok |-> TRUE, val |-> PyList(out), exc |-> "None", nows |-> Len(out)]
    ELSE LET doc == sanitize_for_mongo(Head(items))
         IN  IF doc.tag # "dict"
             THEN TransformLoopSkipsBad(Tail(items), ts, out)
             ELSE TransformLoopSkipsBad(Tail(items), Tail(ts),
                                        Append(out, Stamp(doc, isoformat(Head(ts)))))

\* The for loop of transform: `items` still to visit, `ts` the values the
\* coming datetime.now() calls return, `out` the docs appended so far. The
\* right-hand side (the now() call) is evaluated before the item assignment,
\* which raises TypeError on anything but a dict.
RECURSIVE TransformLoop(_, _, _)
TransformLoop(items, ts, out) ==
    IF items = <<>>
    THEN [ok |-> TRUE, val |-> PyList(out), exc |-> "None", nows |-> Len(out)]
    ELSE LET doc == sanitize_for_mongo(Head(items))
         IN  IF doc.tag # "dict"
             THEN [ok |-> FALSE, val |-> Unbound, exc |-> "TypeError",
                   nows |-> Len(out) + 1]
             ELSE TransformLoop(Tail(items), Tail(ts),
                                Append(out, Stamp(doc, isoformat(Head(ts)))))

\* transform(raw_data), given the values its datetime.now() calls return.
transform(raw_data, ts) ==
    IF raw_data.tag # "dict"
    THEN [ok |-> FALSE, val |-> Unbound, exc |-> "AttributeError", nows |-> 0]
    ELSE LET vulnerabilities == DictGet(raw_data.items, VULNERABILITIES, PyList(<<>>))
         IN  IF ~Iterable(vulnerabilities)
             THEN [ok |-> FALSE, val |-> Unbound, exc |-> "TypeError", nows |-> 0]
             ELSE TransformLoop(Iterate(vulnerabilities), ts, <<>>)

\* ------------------------------------------------------------ load_to_mongo
\* `if not MONGO_URI`, but testing only for an unset variable.
ConfigMissingIsNone(uri) == uri = PyNone

\* `if not MONGO_URI`
ConfigMissing(uri) == ~Truthy(uri)

\* insert_many called whatever the batch holds.
InsertBatchesAlways(d) == <<d>>

\* The insert_many calls load_to_mongo issues for docs `d`: `if docs:` guards
\* the single call.
InsertBatches(d) == IF Truthy(d) THEN <<d>> ELSE <<>>

\* What coll.insert_many(d) can do: insert every document and return; fail to
\* reach the server and insert nothing; or (an ordered bulk write) insert the
\* documents before the first one the server rejects and raise.
InsertOutcomes(d) ==
    {[ok |-> TRUE, n |-> Len(d.elems), exc |-> "None"],
     [ok |-> FALSE, n |-> 0, exc |-> "ServerSelectionTimeoutError"]}
    \cup {[ok |-> FALSE, n |-> k, exc |-> "BulkWriteError"] : k \in 0..(Len(d.elems) - 1)}

ID_KEY == <<"_", "i", "d">>
\* The i-th ObjectId an insert_many call generates.
PyObjectId(i) == [tag |-> "scalar", type |-> "ObjectId", val |-> Decimal(i)]

\* insert_many(d) gives every document that has no "_id" a fresh ObjectId, in
\* place, while it builds the batch: before anything is sent, so also when
\* the insert then fails.
AddIds(d) ==
    PyList([i \in 1..Len(d.elems) |->
        IF \E j \in 1..Len(d.elems[i].items) : d.elems[i].items[j].k = ID_KEY
        THEN d.elems[i]
        ELSE PyDict(Append(d.elems[i].items, [k |-> ID_KEY, v |-> PyObjectId(i)]))])

\* load_to_mongo(docs) under MONGO_URI = uri, `outcome` what insert_many does
\* if it is called: the result, the clients constructed, the arguments of the
\* insert_many calls issued (as they were when passed), the list `docs` after
\* the call, the documents that reached the collection and the records logged.
load_to_mongo(uri, d, outcome) ==
    IF ConfigMissing(uri)
    THEN [ok |-> FALSE, val |-> Unbound, exc |-> "RuntimeError", opened |-> 0,
          calls |-> <<>>, docs |-> d, inserted |-> <<>>, logged |-> <<>>]
    ELSE IF InsertBatches(d) # <<>>
    THEN IF outcome.ok
         THEN [ok |-> TRUE, val |-> PyNone, exc |-> "None", opened |-> 1,
               calls |-> InsertBatches(d), docs |-> AddIds(d),
               inserted |-> AddIds(d).elems,
               logged |-> <<[level |-> "INFO", msg |-> "Inserted documents",
                             n |-> outcome.n]>>]
         ELSE [ok |-> FALSE, val |-> Unbound, exc |-> outcome.exc, opened |-> 1,
               calls |-> InsertBatches(d), docs |-> AddIds(d),
               inserted |-> SubSeq(AddIds(d).elems, 1, outcome.n),
               logged |-> <<>>]
    ELSE [ok |-> TRUE, val |-> PyNone, exc |-> "None", opened |-> 1,
          calls |-> <<>>, docs |-> d, inserted |-> <<>>,
          logged |-> <<[level |-> "WARNING", msg |-> "No documents to insert.",
                        n |-> 0]>>]

\* ------------------------------------------------------------ run
\* `except Exception` that names one class only.
CatchesRuntimeErrorOnly(exc) == exc = "RuntimeError"

\* `except Exception`: every exception the three steps raise derives from it.
Catches(exc) ==
    exc \in {"ConnectionError", "Timeout", "MissingSchema", "HTTPError",
             "JSONDecodeError", "AttributeError", "TypeError", "RuntimeError",
             "ServerSelectionTimeoutError", "BulkWriteError"}

\* The step run() goes to when `step` returns.
NextStep(step) ==
    IF step = "FETCH" THEN "TRANSFORM"
    ELSE IF step = "TRANSFORM" THEN "LOAD"
    ELSE "DONE"

\* Where run() is after `step` raised exc, and what it logged.
AfterRaise(exc) == IF Catches(exc) THEN "FAILED" ELSE "RAISED"
FailureLog(exc) ==
    IF Catches(exc)
    THEN <<[level |-> "ERROR", msg |-> "ETL process failed", exc |-> exc]>>
    ELSE <<>>

\* ------------------------------------------------------------ inputs
\* Sequences of length at most n over S.
SeqsUpTo(S, n) == UNION {[1..m -> S] : m \in 0..n}

\* Entry sequences of at most n entries with pairwise distinct keys.
DictsOver(keys, vals, n) ==
    {PyDict(es) : es \in {e \in SeqsUpTo([k : keys, v : vals], n) :
                            \A i, j \in 1..Len(e) : i # j => e[i].k # e[j].k}}

K_cve_dot_id == <<"c","v","e",".","i","d">>
K_cve_id == <<"c","v","e","_","i","d">>
K_notes == <<"n","o","t","e","s">>
K_a_dot_b_dollar_c == <<"a",".","b","$","c">>
K_ingested_dot_at == <<"i","n","g","e","s","t","e","d",".","a","t">>
K_ingested_dollar_at == <<"i","n","g","e","s","t","e","d","$","a","t">>
K_x_dot_y == <<"x",".","y">>
K_x_dollar_y == <<"x","$","y">>

S_cve == PyStr(<<"C","V","E","-","2","0","2","4","-","0","0","0","1">>)
I_one == PyInt(<<"1">>)
I_two == PyInt(<<"2">>)

\* Keys of a feed record: clean keys, keys holding '.', '$' or both, keys that
\* rewrite to the same key, and keys that rewrite to "ingested_at".
Keys == {K_cve_dot_id, K_cve_id, K_notes, K_a_dot_b_dollar_c,
         K_ingested_dot_at, K_ingested_dollar_at, INGESTED_AT}

\* Values of a record's fields: scalars, a nested mapping, a nested mapping
\* whose keys collide, a mapping inside a sequence inside a sequence.
D_notes == PyDict(<<[k |-> K_a_dot_b_dollar_c, v |-> I_one]>>)
D_collide == PyDict(<<[k |-> K_x_dot_y, v |-> I_one], [k |-> K_x_dollar_y, v |-> I_two]>>)
L_nested ==
    PyList(<<I_one,
             PyList(<<PyDict(<<[k |-> INGESTED_AT, v |-> S_cve],
                               [k |-> K_a_dot_b_dollar_c, v |-> D_collide]>>)>>)>>)
FieldValues == {S_cve, I_one, D_notes, D_collide, L_nested}

\* The arguments the sanitizer is called with: every record of at most
\* MaxEntries fields, and the non-mapping values.
SanitizerInputs == DictsOver(Keys, FieldValues, MaxEntries) \cup FieldValues \cup {PyNone}

\* {"cve.id": "CVE-2024-0001", "notes": {"a.b$c": 1}}
ExampleRecord == PyDict(<<[k |-> K_cve_dot_id, v |-> S_cve], [k |-> K_notes, v |-> D_notes]>>)

\* The record with a field named "ingested.at" and a nested mapping that has
\* an "ingested_at" field of its own.
StampedSource ==
    PyDict(<<[k |-> K_ingested_dot_at, v |-> S_cve], [k |-> K_notes, v |-> L_nested]>>)

\* The elements a feed's "vulnerabilities" array is drawn from: records (the
\* example, one with colliding keys, ones with a field that rewrites to or is
\* named "ingested_at", an empty one) and values that are no mapping.
FeedItems ==
    {ExampleRecord,
     PyDict(<<[k |-> K_cve_dot_id, v |-> S_cve], [k |-> K_cve_id, v |-> I_one]>>),
     StampedSource,
     PyDict(<<[k |-> INGESTED_AT, v |-> I_one]>>),
     PyDict(<<>>),
     PyDict(<<[k |-> ID_KEY, v |-> I_one]>>),
     S_cve,
     PyList(<<D_notes>>)}

\* The JSON bodies a server may answer with: a mapping with a "vulnerabilities"
\* array, with the field absent, with the field holding something else, and
\* bodies that are no mapping.
Payloads ==
    {PyDict(<<[k |-> VULNERABILITIES, v |-> PyList(items)]>>) :
        items \in SeqsUpTo(FeedItems, MaxItems)}
    \cup {PyDict(<<>>),
          PyDict(<<[k |-> K_notes, v |-> PyList(<<ExampleRecord>>)]>>),
          PyDict(<<[k |-> VULNERABILITIES, v |-> PyNone]>>),
          PyDict(<<[k |-> VULNERABILITIES, v |-> I_one]>>),
          PyDict(<<[k |-> VULNERABILITIES, v |-> PyStr(<<>>)]>>),
          PyDict(<<[k |-> VULNERABILITIES, v |-> S_cve]>>),
          PyDict(<<[k |-> VULNERABILITIES, v |-> PyDict(<<>>)]>>),
          PyDict(<<[k |-> VULNERABILITIES, v |-> D_notes]>>),
          PyList(<<ExampleRecord>>),
          PyNone,
          S_cve}

HttpResponse(status, is_json, body) ==
    [kind |-> "http", status |-> status, is_json |-> is_json, body |-> body]
TransportError(kind) ==
    [kind |-> kind, status |-> 0, is_json |-> FALSE, body |-> Unbound]

\* What requests.get(u, timeout=30) can meet. An unset URL is rejected before
\* any request is sent.
Responses(u) ==
    IF u = PyNone THEN {TransportError("MissingSchema")}
    ELSE {TransportError("ConnectionError"), TransportError("Timeout"),
          HttpResponse(200, FALSE, Unbound),
          HttpResponse(404, FALSE, Unbound),
          HttpResponse(500, TRUE, PyDict(<<[k |-> VULNERABILITIES,
                                            v |-> PyList(<<ExampleRecord>>)]>>)),
          HttpResponse(300, TRUE, PyDict(<<[k |-> VULNERABILITIES,
                                            v |-> PyList(<<ExampleRecord>>)]>>)),
          HttpResponse(600, TRUE, PyDict(<<>>))}
         \cup {HttpResponse(200, TRUE, body) : body \in Payloads}

\* The values successive datetime.now() calls can return: n instants, never
\* going back.
TimeSeqs(n) ==
    {ts \in [1..n -> 0..MaxTime] : \A i \in 1..(n - 1) : ts[i] <= ts[i + 1]}

\* The configured values: a feed URL and a well-formed connection string.
\* pymongo.MongoClient(uri) on a well-formed string connects lazily: the
\* constructor does no I/O and the first server round trip is insert_many.
U_feed == PyStr(<<"h","t","t","p","s",":","/","/","f","e","e","d">>)
U_mongo == PyStr(<<"m","o","n","g","o","d","b",":","/","/","d","b">>)

\* ------------------------------------------------------------ the run
PipelineInit ==
    /\ pc = "FETCH"
    /\ response = Unbound
    /\ raw = Unbound
    /\ docs = Unbound
    /\ transformed = Unbound
    /\ nowCalls = <<>>
    /\ fetchCalls = 0
    /\ transformCalls = 0
    /\ clientOpened = 0
    /\ insertCalls = <<>>
    /\ store = <<>>
    /\ loadResult = Unbound
    /\ log = <<>>
    /\ escaped = FALSE
    /\ loadCalls = 0

\* No direct call of sanitize_for_mongo or transform is made during a run.
NoDirectCalls ==
    /\ fnArg = Unbound
    /\ fnOut = Unbound
    /\ fnOps = <<>>
    /\ fnNows = <<>>

Init ==
    /\ url \in {PyNone, U_feed}
    /\ mongoUri \in {PyNone, PyStr(<<>>), U_mongo}
    /\ PipelineInit
    /\ NoDirectCalls

\* run() leaves `step` by exception exc.
Fail(exc) ==
    /\ pc' = AfterRaise(exc)
    /\ escaped' = ~Catches(exc)

\* raw = extract(CISA_KEV_URL)
Extract ==
    /\ pc = "FETCH"
    /\ \E resp \in Responses(url) :
         LET r == extract(resp)
         IN  /\ response' = resp
             /\ fetchCalls' = fetchCalls + 1
             /\ IF r.ok
                THEN /\ raw' = r.val
                     /\ pc' = NextStep("FETCH")
                     /\ escaped' = escaped
                     /\ log' = Append(log, [level |-> "INFO", msg |-> "Extracting data"])
                ELSE /\ raw' = raw
                     /\ Fail(r.exc)
                     /\ log' = Append(log, [level |-> "INFO", msg |-> "Extracting data"])
                               \o FailureLog(r.exc)
    /\ UNCHANGED <<url, mongoUri, docs, transformed, nowCalls, transformCalls, clientOpened,
                   insertCalls, store, loadResult, loadCalls>>
    /\ UNCHANGED fnVars

\* docs = transform(raw)
Transform ==
    /\ pc = "TRANSFORM"
    /\ \E ts \in TimeSeqs(MaxItems) :
         LET r == transform(raw, ts)
         IN  /\ transformCalls' = transformCalls + 1
             /\ nowCalls' = nowCalls \o SubSeq(ts, 1, r.nows)
             /\ IF r.ok
                THEN /\ docs' = r.val
                     /\ transformed' = r.val
                     /\ pc' = NextStep("TRANSFORM")
                     /\ escaped' = escaped
                     /\ log' = Append(log, [level |-> "INFO", msg |-> "Transforming data..."])
                ELSE /\ docs' = docs
                     /\ transformed' = transformed
                     /\ Fail(r.exc)
                     /\ log' = Append(log, [level |-> "INFO", msg |-> "Transforming data..."])
                               \o FailureLog(r.exc)
    /\ UNCHANGED <<url, mongoUri, response, raw, fetchCalls, clientOpened,
                   insertCalls, store, loadResult, loadCalls>>
    /\ UNCHANGED fnVars

\* load_to_mongo(docs), then the closing log record of run()
Load ==
    /\ pc = "LOAD"
    /\ \E outcome \in InsertOutcomes(docs) :
         LET r == load_to_mongo(mongoUri, docs, outcome)
         IN  /\ loadCalls' = loadCalls + 1
             /\ clientOpened' = clientOpened + r.opened
             /\ insertCalls' = insertCalls \o r.calls
             /\ store' = store \o r.inserted
             /\ docs' = r.docs
             /\ IF r.ok
                THEN /\ loadResult' = r.val
                     /\ pc' = NextStep("LOAD")
                     /\ escaped' = escaped
                     /\ log' = log \o r.logged
                               \o <<[level |-> "INFO",
                                     msg |-> "ETL process completed successfully."]>>
                ELSE /\ loadResult' = loadResult
                     /\ Fail(r.exc)
                     /\ log' = log \o r.logged \o FailureLog(r.exc)
    /\ UNCHANGED <<url, mongoUri, response, raw, transformed, nowCalls, fetchCalls,
                   transformCalls>>
    /\ UNCHANGED fnVars

Next == Extract \/ Transform \/ Load

Spec == Init /\ [][Next]_vars

\* ------------------------------------------------------------ direct calls
\* sanitize_for_mongo and transform called on their own, on every input of the
\* bounded sets, and again on what they returned.
FnInit ==
    /\ url = PyNone
    /\ mongoUri = PyNone
    /\ PipelineInit
    /\ fnArg \in SanitizerInputs \cup Payloads
    /\ fnOut = Unbound
    /\ fnOps = <<>>
    /\ fnNows = <<>>

\* {"vulnerabilities": out}: a feed made of the documents a transform returned
Feed(out) == PyDict(<<[k |-> VULNERABILITIES, v |-> out]>>)

LastOp == IF fnOps = <<>> THEN "none" ELSE fnOps[Len(fnOps)]
LastNow == IF fnNows = <<>> THEN 0 ELSE fnNows[Len(fnNows)]

\* sanitize_for_mongo(fnArg), or sanitize_for_mongo of what the previous
\* sanitize_for_mongo call returned
CallSanitize ==
    /\ Len(fnOps) < MaxCalls
    /\ LastOp \in {"none", "sanitize_for_mongo"}
    /\ LET arg == IF fnOps = <<>> THEN fnArg ELSE fnOut
       IN  /\ fnArg' = arg
           /\ fnOut' = sanitize_for_mongo(arg)
    /\ fnOps' = Append(fnOps, "sanitize_for_mongo")
    /\ UNCHANGED fnNows
    /\ UNCHANGED runVars

\* transform(fnArg), or transform of a feed made of the documents the previous
\* transform call returned; the clock never goes back between calls. Each call
\* writes its "Transforming data..." record before anything else, whether it
\* returns or raises; no run() is active, so nothing else of a run changes.
CallTransform ==
    /\ Len(fnOps) < MaxCalls
    /\ LastOp \in {"none", "transform"}
    /\ LastOp = "transform" => fnOut # Unbound
    /\ \E ts \in TimeSeqs(MaxItems) :
         LET arg == IF fnOps = <<>> THEN fnArg ELSE Feed(fnOut)
             r == transform(arg, ts)
         IN  /\ LastNow <= ts[1]
             /\ fnArg' = arg
             /\ fnOut' = r.val
             /\ fnNows' = fnNows \o SubSeq(ts, 1, r.nows)
             /\ nowCalls' = nowCalls \o SubSeq(ts, 1, r.nows)
    /\ fnOps' = Append(fnOps, "transform")
    /\ transformCalls' = transformCalls + 1
    /\ log' = Append(log, [level |-> "INFO", msg |-> "Transforming data..."])
    /\ UNCHANGED <<pc, url, mongoUri, response, raw, docs, transformed, fetchCalls, clientOpened,
                   insertCalls, store, loadResult, escaped, loadCalls>>

FnNext == CallSanitize \/ CallTransform

FnSpec == FnInit /\ [][FnNext]_vars

\* ============================================================ properties
Steps == {"FETCH", "TRANSFORM", "LOAD"}
Terminal == {"DONE", "FAILED"}
LastLog == log[Len(log)]
RunFailedWith(exc) ==
    /\ pc = "FAILED"
    /\ log # <<>>
    /\ LastLog.level = "ERROR"
    /\ LastLog.exc = exc

\* A fetch met a transport error, a status outside the success range 2xx, or
\* a body that is no JSON.
FetchNotSuccess(resp) ==
    \/ resp.kind # "http"
    \/ resp.status \notin 200..299
    \/ ~resp.is_json

\* MONGO_URI unset, or set to the empty string.
StoreEndpointMissing == mongoUri \in {PyNone, PyStr(<<>>)}

\* The elements of the fetched payload's "vulnerabilities" field.
SourceItems == Iterate(DictGet(raw.items, VULNERABILITIES, PyList(<<>>)))

\* ------------------------------------------------------------ C1
C1_State ==
    /\ pc \in Steps \cup Terminal
    /\ escaped = FALSE
    /\ fetchCalls <= 1 /\ transformCalls <= 1 /\ loadCalls <= 1
    /\ pc = "FETCH" => fetchCalls = 0 /\ transformCalls = 0 /\ loadCalls = 0
    /\ transformCalls = 1 => fetchCalls = 1 /\ raw # Unbound
    /\ loadCalls = 1 => transformCalls = 1 /\ docs # Unbound
    /\ pc = "TRANSFORM" => fetchCalls = 1 /\ raw # Unbound /\ transformCalls = 0
    /\ pc = "LOAD" => transformCalls = 1 /\ docs # Unbound /\ loadCalls = 0
    /\ pc = "DONE" <=> (raw # Unbound /\ docs # Unbound /\ loadResult # Unbound)
    /\ pc = "DONE" => \A i \in 1..Len(log) : log[i].level # "ERROR"
    /\ pc = "FAILED" <=> (log # <<>> /\ LastLog.level = "ERROR")
    /\ pc \notin Terminal => ENABLED Next
    /\ pc \in Terminal => ~ENABLED Next

C1_Step ==
    \/ <<pc, pc'>> \in {<<"FETCH", "TRANSFORM">>, <<"TRANSFORM", "LOAD">>,
                        <<"LOAD", "DONE">>}
    \/ pc \in Steps /\ pc' = "FAILED"

\* C1: run() executes FETCH, TRANSFORM, LOAD at most once each and in that
\* order, a step starting only after the earlier ones returned; it stops in
\* exactly one of DONE (all three returned) and FAILED (one raised, which is
\* logged), and no exception leaves run().
C1_RunOrder == [](C1_State) /\ [][C1_Step]_vars

C1_Witness ==
    /\ pc = "DONE"
    /\ fetchCalls = 1 /\ transformCalls = 1 /\ loadCalls = 1
    /\ Len(store) = 2

\* ------------------------------------------------------------ C2
\* C2: when the fetch fails (a transport error, a timeout, a non-success
\* status, a body that is no JSON) the run is FAILED, transform was never
\* called, no client was opened and no insert was attempted; the fetch is
\* issued once.
C2_NonSuccessStopsRun ==
    /\ fetchCalls <= 1
    /\ (fetchCalls = 1 /\ FetchNotSuccess(response)) =>
         /\ pc = "FAILED"
         /\ raw = Unbound
         /\ transformCalls = 0
         /\ loadCalls = 0
         /\ clientOpened = 0
         /\ insertCalls = <<>>

\* ------------------------------------------------------------ C3
\* C3: with MONGO_URI missing nothing is validated up front: a failure never
\* precedes the fetch, a fetched payload is transformed, transformed records
\* reach the load step, and the load step fails with the configuration error
\* before any client is opened or insert issued; the run never reaches DONE
\* and the store keeps its contents.
C3_MissingEndpointFailsAtLoad ==
    StoreEndpointMissing =>
      /\ clientOpened = 0
      /\ insertCalls = <<>>
      /\ store = <<>>
      /\ pc # "DONE"
      /\ pc = "FAILED" => fetchCalls = 1
      /\ (pc = "FAILED" /\ raw # Unbound) => transformCalls = 1
      /\ (pc = "FAILED" /\ docs # Unbound) => loadCalls = 1
      /\ loadCalls = 1 => docs # Unbound /\ RunFailedWith("RuntimeError")

C3_Witness ==
    /\ StoreEndpointMissing
    /\ loadCalls = 1
    /\ docs # Unbound
    /\ Len(docs.elems) = 2
    /\ RunFailedWith("RuntimeError")
    /\ store = <<>>

\* ------------------------------------------------------------ C4
\* C4: with MONGO_URI set, a load of an empty list issues no insert call and
\* the run is DONE; a load of a non-empty list issues exactly one insert call,
\* whose argument is the whole list of transformed documents in order. No run
\* issues more than one insert call.
C4_InsertCallsFollowInput ==
    /\ Len(insertCalls) <= 1
    /\ (~StoreEndpointMissing /\ loadCalls = 1) =>
         IF transformed.elems = <<>>
         THEN insertCalls = <<>> /\ pc = "DONE" /\ escaped = FALSE
         ELSE insertCalls = <<transformed>>

C4_Witness ==
    /\ ~StoreEndpointMissing
    /\ loadCalls = 1
    /\ Len(transformed.elems) = 2
    /\ insertCalls = <<transformed>>
    /\ Len(store) = 2
    /\ pc = "DONE"

C4_WitnessEmpty ==
    /\ ~StoreEndpointMissing
    /\ loadCalls = 1
    /\ transformed.elems = <<>>
    /\ insertCalls = <<>>
    /\ pc = "DONE"

\* ------------------------------------------------------------ C5
\* C5: load_to_mongo returns the count of inserted records: 0 for an empty
\* list, the length of the list after a successful bulk insert.
C5_LoadReturnsCount ==
    (loadCalls = 1 /\ pc = "DONE") =>
        loadResult = PyInt(Decimal(Len(docs.elems)))

\* ------------------------------------------------------------ C6
\* The rewrite the key rule asks for, character by character.
ExpectedKey(k) == [i \in 1..Len(k) |-> IF k[i] \in {".", "$"} THEN "_" ELSE k[i]]
CleanKey(k) == \A i \in 1..Len(k) : k[i] \notin {".", "$"}

\* The keys of every mapping inside v, at any depth.
RECURSIVE AllKeys(_)
AllKeys(v) ==
    IF v.tag = "dict"
    THEN {v.items[i].k : i \in 1..Len(v.items)}
         \cup UNION {AllKeys(v.items[i].v) : i \in 1..Len(v.items)}
    ELSE IF v.tag = "list"
    THEN UNION {AllKeys(v.elems[i]) : i \in 1..Len(v.elems)}
    ELSE {}

\* The entry of `items` that is written last under the rewritten key key.
LastWriter(items, key) ==
    CHOOSE i \in 1..Len(items) :
        /\ ExpectedKey(items[i].k) = key
        /\ \A j \in (i + 1)..Len(items) : ExpectedKey(items[j].k) # key

\* Mapping by mapping: the keys of `out` are the rewritten keys of `in`.
RECURSIVE KeysRewritten(_, _)
KeysRewritten(in, out) ==
    IF in.tag = "dict"
    THEN /\ out.tag = "dict"
         /\ {out.items[j].k : j \in 1..Len(out.items)}
              = {ExpectedKey(in.items[i].k) : i \in 1..Len(in.items)}
         /\ \A j \in 1..Len(out.items) :
              KeysRewritten(in.items[LastWriter(in.items, out.items[j].k)].v,
                            out.items[j].v)
    ELSE IF in.tag = "list"
    THEN /\ out.tag = "list"
         /\ Len(out.elems) = Len(in.elems)
         /\ \A i \in 1..Len(in.elems) : KeysRewritten(in.elems[i], out.elems[i])
    ELSE TRUE

\* {"cve_id": "CVE-2024-0001", "notes": {"a_b_c": 1}}
ExampleSanitized ==
    PyDict(<<[k |-> K_cve_id, v |-> S_cve],
             [k |-> K_notes,
              v |-> PyDict(<<[k |-> <<"a","_","b","_","c">>, v |-> I_one]>>)]>>)

\* C6: what sanitize_for_mongo returns has no key holding '.' or '$' at any
\* depth, mappings inside sequences included; its keys are the argument's keys
\* with every '.' and '$' replaced by '_', clean keys unchanged. The example
\* record becomes {"cve_id": ..., "notes": {"a_b_c": 1}}, and transform adds
\* ingested_at to it.
C6_KeysRewritten ==
    /\ LastOp = "sanitize_for_mongo" =>
         /\ \A k \in AllKeys(fnOut) : CleanKey(k)
         /\ AllKeys(fnOut) \subseteq {ExpectedKey(k) : k \in AllKeys(fnArg)}
         /\ KeysRewritten(fnArg, fnOut)
         /\ fnArg = ExampleRecord => fnOut = ExampleSanitized
    /\ (LastOp = "transform" /\ fnArg = Feed(PyList(<<ExampleRecord>>))) =>
         fnOut = PyList(<<PyDict(Append(ExampleSanitized.items,
                                        [k |-> INGESTED_AT,
                                         v |-> isoformat(fnNows[Len(fnNows)])]))>>)

C6_Witness ==
    /\ fnOps = <<"sanitize_for_mongo">>
    /\ fnArg = ExampleRecord
    /\ fnOut = ExampleSanitized

\* ------------------------------------------------------------ C7
\* a and b have the same fields in the same order, with equal values in every
\* field but ingested_at.
SameButIngestedAt(a, b) ==
    /\ a.tag = "dict" /\ b.tag = "dict"
    /\ Len(a.items) = Len(b.items)
    /\ \A j \in 1..Len(a.items) :
         /\ a.items[j].k = b.items[j].k
         /\ a.items[j].k # INGESTED_AT => a.items[j].v = b.items[j].v

\* C7: sanitize_for_mongo applied to its own result returns it unchanged, and
\* transform applied to records it already transformed returns them equal in
\* every field but ingested_at, which holds the new timestamp.
C7_Idempotent ==
    /\ (Len(fnOps) >= 2 /\ LastOp = "sanitize_for_mongo") => fnOut = fnArg
    /\ (Len(fnOps) >= 2 /\ LastOp = "transform") =>
         LET before == fnArg.items[1].v.elems
             n == Len(before)
         IN  /\ fnOut # Unbound
             /\ Len(fnOut.elems) = n
             /\ Len(fnNows) >= 2 * n
             /\ \A i \in 1..n :
                  /\ SameButIngestedAt(before[i], fnOut.elems[i])
                  /\ DictGet(fnOut.elems[i].items, INGESTED_AT, Unbound)
                       = isoformat(fnNows[Len(fnNows) - n + i])

C7_Witness ==
    /\ fnOps = <<"sanitize_for_mongo", "sanitize_for_mongo">>
    /\ fnArg = ExampleSanitized
    /\ fnOut = ExampleSanitized

C7_WitnessTransform ==
    /\ fnOps = <<"transform", "transform">>
    /\ Len(fnOut.elems) = 2
    /\ fnNows = <<0, 1, 1, 2>>
    /\ DictGet(fnArg.items[1].v.elems[2].items, INGESTED_AT, Unbound) = isoformat(1)
    /\ DictGet(fnOut.elems[2].items, INGESTED_AT, Unbound) = isoformat(2)

\* ------------------------------------------------------------ C8
RewrittenKeys(items) == {ExpectedKey(items[i].k) : i \in 1..Len(items)}
KeysCollide(items) ==
    \E i, j \in 1..Len(items) :
        i # j /\ ExpectedKey(items[i].k) = ExpectedKey(items[j].k)

\* `out` has the shape of `in`: a mapping for a mapping, with one field per
\* rewritten key and the value written last under it; a sequence for a
\* sequence, element by element; the same scalar for a scalar.
RECURSIVE ShapePreserved(_, _)
ShapePreserved(in, out) ==
    IF in.tag = "dict"
    THEN /\ out.tag = "dict"
         /\ Len(out.items) = Cardinality(RewrittenKeys(in.items))
         /\ IF KeysCollide(in.items)
            THEN Len(out.items) < Len(in.items)
            ELSE Len(out.items) = Len(in.items)
         /\ \A j \in 1..Len(out.items) :
              /\ out.items[j].k \in RewrittenKeys(in.items)
              /\ ShapePreserved(in.items[LastWriter(in.items, out.items[j].k)].v,
                                out.items[j].v)
    ELSE IF in.tag = "list"
    THEN /\ out.tag = "list"
         /\ Len(out.elems) = Len(in.elems)
         /\ \A i \in 1..Len(in.elems) : ShapePreserved(in.elems[i], out.elems[i])
    ELSE out = in

\* doc without its ingested_at field
DropIngestedAt(doc) ==
    PyDict(SelectSeq(doc.items, LAMBDA e : e.k # INGESTED_AT))

\* C8: sanitize_for_mongo keeps the shape of its argument (a mapping keeps its
\* key count unless keys collide, when it shrinks and the last value written
\* wins; a sequence keeps its length and order; a scalar is returned as it
\* is), and transform returns one record per element of "vulnerabilities", in
\* order, and an empty list when the field is empty or absent.
C8_ShapePreserved ==
    /\ LastOp = "sanitize_for_mongo" => ShapePreserved(fnArg, fnOut)
    /\ (Len(fnOps) = 1 /\ LastOp = "transform" /\ fnArg.tag = "dict") =>
         LET present == \E i \in 1..Len(fnArg.items) : fnArg.items[i].k = VULNERABILITIES
             v == DictGet(fnArg.items, VULNERABILITIES, PyList(<<>>))
         IN  /\ ~present => fnOut = PyList(<<>>)
             /\ v = PyList(<<>>) => fnOut = PyList(<<>>)
             /\ (v.tag = "list" /\ \A i \in 1..Len(v.elems) : v.elems[i].tag = "dict") =>
                  /\ fnOut # Unbound
                  /\ Len(fnOut.elems) = Len(v.elems)
                  /\ \A i \in 1..Len(v.elems) :
                       /\ fnOut.elems[i].tag = "dict"
                       /\ ShapePreserved(
                            DropIngestedAt(PyDict([j \in 1..Len(v.elems[i].items) |->
                                [k |-> ExpectedKey(v.elems[i].items[j].k),
                                 v |-> v.elems[i].items[j].v]])),
                            DropIngestedAt(fnOut.elems[i]))

C8_Witness ==
    /\ fnOps = <<"sanitize_for_mongo">>
    /\ fnArg = D_collide
    /\ fnOut = PyDict(<<[k |-> <<"x","_","y">>, v |-> I_two]>>)

C8_WitnessTransform ==
    /\ fnOps = <<"transform">>
    /\ fnArg.tag = "dict"
    /\ DictGet(fnArg.items, VULNERABILITIES, PyNone) =
         PyList(<<PyDict(<<>>), ExampleRecord>>)
    /\ Len(fnOut.elems) = 2
    /\ DropIngestedAt(fnOut.elems[2]) = ExampleSanitized

\* ------------------------------------------------------------ C9
\* C9: every record transform returned has exactly one top-level ingested_at
\* field, holding the timestamp taken for that record during the transform,
\* whatever the source record held under a key that is or rewrites to
\* ingested_at; every other field is the sanitized source field, so nothing
\* is added inside nested mappings.
C9_IngestedAtStamped ==
    transformed # Unbound =>
      /\ Len(nowCalls) = Len(transformed.elems)
      /\ Len(SourceItems) = Len(transformed.elems)
      /\ \A i \in 1..Len(transformed.elems) :
           LET d == transformed.elems[i]
               src == sanitize_for_mongo(SourceItems[i])
           IN  /\ d.tag = "dict"
               /\ Cardinality({j \in 1..Len(d.items) : d.items[j].k = INGESTED_AT}) = 1
               /\ DictGet(d.items, INGESTED_AT, Unbound) = isoformat(nowCalls[i])
               /\ \A j \in 1..Len(d.items) :
                    d.items[j].k # INGESTED_AT =>
                        d.items[j].v = DictGet(src.items, d.items[j].k, Unbound)
               /\ \A j \in 1..Len(src.items) :
                    src.items[j].k # INGESTED_AT =>
                        DictGet(d.items, src.items[j].k, Unbound) = src.items[j].v

C9_Witness ==
    /\ transformed # Unbound
    /\ Len(transformed.elems) = 2
    /\ SourceItems[2] = StampedSource
    /\ nowCalls = <<0, 1>>
    /\ transformed.elems[2].items[1] = [k |-> INGESTED_AT, v |-> isoformat(1)]
    /\ DictGet(transformed.elems[2].items, K_notes, Unbound) =
         PyList(<<I_one,
                  PyList(<<PyDict(<<[k |-> INGESTED_AT, v |-> S_cve],
                                    [k |-> <<"a","_","b","_","c">>,
                                     v |-> PyDict(<<[k |-> <<"x","_","y">>,
                                                     v |-> I_two]>>)]>>)>>)>>)

\* ------------------------------------------------------------ C10
\* The fetched payload is no mapping, or an element of its "vulnerabilities"
\* array is no mapping.
TransformMustRaise ==
    \/ raw.tag # "dict"
    \/ LET v == DictGet(raw.items, VULNERABILITIES, PyList(<<>>))
       IN  v.tag = "list" /\ \E i \in 1..Len(v.elems) : v.elems[i].tag # "dict"

\* C10: an insert is issued only after transform returned a record for every
\* element of "vulnerabilities"; when the payload or one of the elements is no
\* mapping, transform raises, the run is FAILED and nothing is inserted, the
\* valid records before the bad element included.
C10_AllOrNothing ==
    /\ (insertCalls # <<>> \/ store # <<>>) =>
         /\ docs # Unbound
         /\ Len(docs.elems) = Len(SourceItems)
         /\ \A i \in 1..Len(SourceItems) : SourceItems[i].tag = "dict"
    /\ (transformCalls = 1 /\ TransformMustRaise) =>
         /\ pc = "FAILED"
         /\ escaped = FALSE
         /\ docs = Unbound
         /\ loadCalls = 0
         /\ clientOpened = 0
         /\ insertCalls = <<>>
         /\ store = <<>>

C10_Witness ==
    /\ transformCalls = 1
    /\ raw.tag = "dict"
    /\ DictGet(raw.items, VULNERABILITIES, PyNone) = PyList(<<ExampleRecord, S_cve>>)
    /\ nowCalls = <<1, 2>>
    /\ RunFailedWith("TypeError")
    /\ store = <<>>

====
